---- MODULE Spec2Model ----
(***************************************************************************)
(* The core of the node (src/node/core.go): the three registry tables      *)
(* (processes by id, names, aliases), the identifier mint, the spawner     *)
(* with the termination cleanup, and the send routers.                     *)
(*                                                                         *)
(* Every critical section of the code (the code between a Lock and its     *)
(* Unlock, an atomic add, a channel operation) is one step.  An operation  *)
(* made of several critical sections is run by a caller thread whose       *)
(* position is th[t].pc; the cleanup of a process runs on the task of its  *)
(* behavior loop, whose position is heap[o].stage.                         *)
(***************************************************************************)
EXTENDS Integers, Sequences, FiniteSets, TLC

\* ------------------------------------------------------------- constants
startPID == 1000
Creation == 2
DefaultProcessMailboxSize == 100
TwoPow18 == 262144
TwoPow28 == 268435456
NodeName == "node@host"
OtherNode == "peer@host"
CatchPanic == TRUE

\* ---------------------------------------------------------------- bounds
MaxProcs == 2
MaxRefs == 2
MaxRouteProcs == 1
MaxRouteRefs == 1
MaxMsgs == 2
MailboxSize == 3
ExitQueueSize == 1
MaxExitProcs == 1

Threads == {1, 2}
Names == {"svc"}
Msgs == {1}
Groups == {"g1", "g2"}
BehaviorNames == {"a", "b"}
Data == {1, 2}
UniqStart == [hi |-> 24000, mid |-> 0, lo |-> 262142]

\* --------------------------------------------------------- state
VARIABLES
    nextPID,        \* core.nextPID
    uniqID,         \* core.uniqID, as its three bit fields
    heap,           \* the process objects allocated so far, in order
    processes,      \* core.processes: id -> process object
    names,          \* core.names: name -> Pid
    aliases,        \* core.aliases: alias -> process object
    nodeStopped,    \* core.ctx is cancelled
    optsCancelled,  \* the caller's opts.Context is cancelled
    th,             \* the caller threads: position and locals
    behaviors,      \* core.behaviors: group -> name -> registered behavior
    seq,            \* the number of the message each caller thread is sending
    ret             \* what the step just taken returned to its caller, if it returned

vars == <<nextPID, uniqID, heap, processes, names, aliases, nodeStopped,
          optsCancelled, th, behaviors, seq, ret>>

registry == <<processes, names, aliases>>

\* --------------------------------------------------------- values
NoPid == [Node |-> "", ID |-> 0, Creation |-> 0]
NoAlias == [Node |-> "", Creation |-> 0, ID |-> <<0, 0, 0>>]
StalePid == [Node |-> NodeName, ID |-> startPID + 1, Creation |-> Creation - 1]
AlienPid == [Node |-> OtherNode, ID |-> startPID + 1, Creation |-> Creation - 1]

Idle == [pc |-> "idle", op |-> "", name |-> "", from |-> NoPid, to |-> NoPid,
         node |-> "", msg |-> 0, o |-> 0, owner |-> 0, alias |-> NoAlias,
         fired |-> "no", group |-> "", data |-> 0, reason |-> "",
         held |-> <<>>, prog |-> <<>>]

Objects == 1..Len(heap)

Put(f, k, v) == [x \in DOMAIN f \cup {k} |-> IF x = k THEN v ELSE f[x]]
Drop(f, k) == [x \in DOMAIN f \ {k} |-> f[x]]
EmptyMap == [x \in {} |-> 0]

SeqSet(s) == {s[i] : i \in DOMAIN s}

NoRet == [op |-> "", err |-> "", t |-> 0, a |-> Idle, sent |-> 0]

\* the step is inside an operation: nothing is returned
Internal == ret' = NoRet

\* the operation `op` of thread t returns `err`; a holds its arguments and
\* locals, sent counts the calls of the connection it made
ReturnWith(t, op, err, a, sent) ==
    /\ ret' = [op |-> op, err |-> err, t |-> t, a |-> a, sent |-> sent]
    /\ th' = [th EXCEPT ![t] = Idle]

Return(t, op, err) == ReturnWith(t, op, err, th[t], 0)

\* the operation returns in the step that called it with the arguments a
ReturnNow(op, err, a) ==
    ret' = [op |-> op, err |-> err, t |-> 0, a |-> a, sent |-> 0]

Goto(t, loc) == th' = [th EXCEPT ![t] = loc]

\* --------------------------------------------------------- identifiers
\* a mint that hands out the id it starts from again and again
newPIDReused(n) == [Node |-> NodeName, ID |-> startPID + 1, Creation |-> Creation]

\* atomic.AddUint64(&c.nextPID, 1), for the counter value n before the call
newPID(n) == [Node |-> NodeName, ID |-> n + 1, Creation |-> Creation]

\* atomic.AddUint64(&c.uniqID, 1); the 64 bits of the counter are kept as
\* lo (bits 0..17), mid (bits 18..45) and hi (bits 46..63)
AddUniq(u) ==
    IF u.lo + 1 < TwoPow18 THEN [u EXCEPT !.lo = u.lo + 1]
    ELSE IF u.mid + 1 < TwoPow28 THEN [u EXCEPT !.lo = 0, !.mid = u.mid + 1]
    ELSE [hi |-> (u.hi + 1) % TwoPow18, mid |-> 0, lo |-> 0]

\* a reference whose second word is taken from bit 18 on
MakeRefShift18(nt) == [Node |-> NodeName, Creation |-> Creation, ID |-> <<nt.lo, nt.mid, 0>>]

\* ID[0] = nt & ((2 << 17) - 1), ID[1] = nt >> 46, ID[2] stays 0
MakeRef(nt) == [Node |-> NodeName, Creation |-> Creation, ID |-> <<nt.lo, nt.hi, 0>>]

RECURSIVE UniqNth(_)
UniqNth(k) == IF k = 0 THEN UniqStart ELSE AddUniq(UniqNth(k - 1))

\* the number of references made so far, and the aliases made of them
RefsMinted == CHOOSE k \in 0..MaxRefs : UniqNth(k) = uniqID
Minted == {MakeRef(UniqNth(k)) : k \in 1..RefsMinted}
BogusAlias == [Node |-> NodeName, Creation |-> Creation, ID |-> <<7, 7, 0>>]
AlienAlias == [Node |-> OtherNode, Creation |-> Creation, ID |-> <<7, 7, 0>>]

\* --------------------------------------------------------- contexts
\* process.context.Err() != nil
ContextErr(o) ==
    IF heap[o].useOpts THEN optsCancelled ELSE heap[o].killed \/ nodeStopped

IsAlive(o) == ~ContextErr(o)

coreStop ==
    /\ ~nodeStopped
    /\ nodeStopped' = TRUE
    /\ UNCHANGED <<nextPID, uniqID, heap, processes, names, aliases,
                   optsCancelled, th, behaviors, seq>>
    /\ Internal

CancelOptsContext ==
    /\ ~optsCancelled
    /\ \E o \in Objects : heap[o].useOpts
    /\ optsCancelled' = TRUE
    /\ UNCHANGED <<nextPID, uniqID, heap, processes, names, aliases,
                   nodeStopped, th, behaviors, seq>>
    /\ Internal

\* --------------------------------------------------------- waiting
\* coreWait: <-c.ctx.Done()
coreWait(t) ==
    /\ th[t].pc = "idle"
    /\ Goto(t, [Idle EXCEPT !.pc = "wait", !.op = "coreWait"])
    /\ Internal
    /\ UNCHANGED <<nextPID, uniqID, heap, processes, names, aliases, nodeStopped,
                   optsCancelled, behaviors, seq>>

coreWaitReturn(t) ==
    /\ th[t].pc = "wait"
    /\ nodeStopped
    /\ Return(t, "coreWait", "nil")
    /\ UNCHANGED <<nextPID, uniqID, heap, processes, names, aliases, nodeStopped,
                   optsCancelled, behaviors, seq>>

\* coreWaitWithTimeout: timer := time.NewTimer(d)
coreWaitWithTimeout(t) ==
    /\ th[t].pc = "idle"
    /\ Goto(t, [Idle EXCEPT !.pc = "wt_timer", !.op = "coreWaitWithTimeout"])
    /\ Internal
    /\ UNCHANGED <<nextPID, uniqID, heap, processes, names, aliases, nodeStopped,
                   optsCancelled, behaviors, seq>>

\* d elapses: the timer sends on timer.C; fired keeps whether the node was
\* alive at that moment
TimerFires(t) ==
    /\ th[t].pc \in {"wt_timer", "wt_select"}
    /\ th[t].fired = "no"
    /\ Goto(t, [th[t] EXCEPT !.fired = IF nodeStopped THEN "stopped" ELSE "alive"])
    /\ Internal
    /\ UNCHANGED <<nextPID, uniqID, heap, processes, names, aliases, nodeStopped,
                   optsCancelled, behaviors, seq>>

\* the select is reached: with no case ready the caller parks; with one
\* ready it is taken; with both ready either is taken (pick)
coreWaitSelect(t, pick) ==
    /\ th[t].pc = "wt_timer"
    /\ IF th[t].fired = "no" /\ ~nodeStopped
       THEN /\ Goto(t, [th[t] EXCEPT !.pc = "wt_select"])
            /\ Internal
       ELSE /\ pick = "timer" => th[t].fired # "no"
            /\ pick = "done" => nodeStopped
            /\ Return(t, "coreWaitWithTimeout", IF pick = "timer" THEN "ErrTimeout" ELSE "nil")
    /\ UNCHANGED <<nextPID, uniqID, heap, processes, names, aliases, nodeStopped,
                   optsCancelled, behaviors, seq>>

\* the parked caller is woken by the case that became ready first
coreWaitWake(t) ==
    /\ th[t].pc = "wt_select"
    /\ th[t].fired # "no" \/ nodeStopped
    /\ Return(t, "coreWaitWithTimeout", IF th[t].fired = "alive" THEN "ErrTimeout" ELSE "nil")
    /\ UNCHANGED <<nextPID, uniqID, heap, processes, names, aliases, nodeStopped,
                   optsCancelled, behaviors, seq>>

\* coreIsAlive: c.ctx.Err() == nil
coreIsAlive ==
    /\ ReturnNow("coreIsAlive", IF nodeStopped THEN "false" ELSE "true", Idle)
    /\ UNCHANGED <<nextPID, uniqID, heap, processes, names, aliases, nodeStopped,
                   optsCancelled, th, behaviors, seq>>

\* --------------------------------------------------------- lookups
ProcessByPid(pid) ==
    IF pid.ID \in DOMAIN processes /\ IsAlive(processes[pid.ID])
    THEN processes[pid.ID] ELSE 0

ProcessByAlias(alias) ==
    IF alias \in DOMAIN aliases /\ IsAlive(aliases[alias])
    THEN aliases[alias] ELSE 0

ProcessByName(name) ==
    IF name # "" /\ name \notin DOMAIN names THEN 0
    ELSE ProcessByPid(IF name = "" THEN NoPid ELSE names[name])

\* --------------------------------------------------------- names
\* a registration that does not look whether the name is taken
registerNameBlind(name, pid) ==
    /\ names' = Put(names, name, pid)
    /\ ReturnNow("registerName", "nil", [Idle EXCEPT !.name = name, !.to = pid])
    /\ UNCHANGED <<nextPID, uniqID, heap, processes, aliases, nodeStopped,
                   optsCancelled, th, behaviors, seq>>

registerName(name, pid) ==
    /\ IF name \in DOMAIN names
       THEN /\ ReturnNow("registerName", "ErrTaken", [Idle EXCEPT !.name = name, !.to = pid])
            /\ UNCHANGED names
       ELSE /\ names' = Put(names, name, pid)
            /\ ReturnNow("registerName", "nil", [Idle EXCEPT !.name = name, !.to = pid])
    /\ UNCHANGED <<nextPID, uniqID, heap, processes, aliases, nodeStopped,
                   optsCancelled, th, behaviors, seq>>

unregisterName(name) ==
    /\ IF name \in DOMAIN names
       THEN /\ names' = Drop(names, name)
            /\ ReturnNow("unregisterName", "nil", [Idle EXCEPT !.name = name])
       ELSE /\ ReturnNow("unregisterName", "ErrNameUnknown", [Idle EXCEPT !.name = name])
            /\ UNCHANGED names
    /\ UNCHANGED <<nextPID, uniqID, heap, processes, aliases, nodeStopped,
                   optsCancelled, th, behaviors, seq>>

\* --------------------------------------------------------- behaviors
RegisterBehavior(group, name, data) ==
    LET a == [Idle EXCEPT !.group = group, !.name = name, !.data = data]
        made == IF group \in DOMAIN behaviors THEN behaviors
                ELSE Put(behaviors, group, EmptyMap)
    IN /\ IF name \in DOMAIN made[group]
          THEN /\ behaviors' = made
               /\ ReturnNow("RegisterBehavior", "ErrTaken", a)
          ELSE /\ behaviors' = Put(made, group, Put(made[group], name, data))
               /\ ReturnNow("RegisterBehavior", "nil", a)
       /\ UNCHANGED <<nextPID, uniqID, heap, processes, names, aliases, nodeStopped,
                      optsCancelled, th, seq>>

\* an unregistration that leaves the emptied group in the map
UnregisterBehaviorKeepsGroup(group, name) ==
    LET a == [Idle EXCEPT !.group = group, !.name = name]
    IN /\ IF group \notin DOMAIN behaviors
          THEN /\ ReturnNow("UnregisterBehavior", "ErrBehaviorUnknown", a)
               /\ UNCHANGED behaviors
          ELSE /\ behaviors' = Put(behaviors, group, Drop(behaviors[group], name))
               /\ ReturnNow("UnregisterBehavior", "nil", a)
       /\ UNCHANGED <<nextPID, uniqID, heap, processes, names, aliases, nodeStopped,
                      optsCancelled, th, seq>>

UnregisterBehavior(group, name) ==
    LET a == [Idle EXCEPT !.group = group, !.name = name]
    IN /\ IF group \notin DOMAIN behaviors
          THEN /\ ReturnNow("UnregisterBehavior", "ErrBehaviorUnknown", a)
               /\ UNCHANGED behaviors
          ELSE LET left == Drop(behaviors[group], name)
               IN /\ behaviors' = IF DOMAIN left = {} THEN Drop(behaviors, group)
                                  ELSE Put(behaviors, group, left)
                  /\ ReturnNow("UnregisterBehavior", "nil", a)
       /\ UNCHANGED <<nextPID, uniqID, heap, processes, names, aliases, nodeStopped,
                      optsCancelled, th, seq>>

\* --------------------------------------------------------- deleteProcess
\* the three critical sections of deleteProcess, as the new value of the
\* table each of them writes; p is the object found under pid.ID
\* the process stays in the table
deleteProcessIdKept(procs, pid) == procs

deleteProcessId(procs, pid) == Drop(procs, pid.ID)

deleteProcessNames(nm, p) ==
    [x \in {y \in DOMAIN nm : y # heap[p].name /\ nm[y] # heap[p].self} |-> nm[x]]

deleteProcessAliases(al) == [x \in {} |-> 0]

\* --------------------------------------------------------- spawn
NewProcess(pid, name, size, useOpts) ==
    [self |-> pid, name |-> name, aliases |-> <<>>, mailBox |-> <<>>,
     mailBoxNil |-> FALSE,
     cap |-> IF size > 0 THEN size ELSE DefaultProcessMailboxSize,
     useOpts |-> useOpts, killed |-> FALSE, gracefulExitNil |-> FALSE,
     gracefulExit |-> <<>>, trapExit |-> FALSE,
     stage |-> "new", started |-> FALSE, reason |-> "", dp |-> 0, notified |-> 0]

\* newProcess up to the construction of the process object
SpawnNew(t, name, size, useOpts) ==
    /\ th[t].pc = "idle"
    /\ Len(heap) < MaxProcs
    /\ nextPID' = nextPID + 1
    /\ heap' = Append(heap, NewProcess(newPID(nextPID), name, size, useOpts))
    /\ Goto(t, [Idle EXCEPT !.pc = IF name = "" THEN "sp_proc" ELSE "sp_name",
                            !.op = "spawn", !.name = name, !.o = Len(heap) + 1])
    /\ UNCHANGED <<uniqID, processes, names, aliases, nodeStopped, optsCancelled,
                   behaviors, seq>>
    /\ Internal

\* a newProcess that registers the process before it looks at the name
SpawnNameRegistered(t) ==
    /\ th[t].pc = "sp_name"
    /\ LET o == th[t].o IN
       /\ processes' = Put(processes, heap[o].self.ID, o)
       /\ IF th[t].name \in DOMAIN names
          THEN /\ heap' = [heap EXCEPT ![o].stage = "failed"]
               /\ Return(t, "spawn", "ErrTaken")
               /\ UNCHANGED names
          ELSE /\ names' = Put(names, th[t].name, heap[o].self)
               /\ Goto(t, [th[t] EXCEPT !.pc = "sp_proc"])
               /\ Internal
               /\ UNCHANGED heap
    /\ UNCHANGED <<nextPID, uniqID, aliases, nodeStopped, optsCancelled, behaviors, seq>>

\* newProcess: the registration of the name
SpawnName(t) ==
    /\ th[t].pc = "sp_name"
    /\ LET o == th[t].o IN
       IF th[t].name \in DOMAIN names
       THEN /\ heap' = [heap EXCEPT ![o].stage = "failed"]
            /\ Return(t, "spawn", "ErrTaken")
            /\ UNCHANGED names
       ELSE /\ names' = Put(names, th[t].name, heap[o].self)
            /\ Goto(t, [th[t] EXCEPT !.pc = "sp_proc"])
            /\ Internal
            /\ UNCHANGED heap
    /\ UNCHANGED <<nextPID, uniqID, processes, aliases, nodeStopped, optsCancelled, behaviors, seq>>

\* newProcess: the registration of the process
SpawnProcess(t) ==
    /\ th[t].pc = "sp_proc"
    /\ processes' = Put(processes, heap[th[t].o].self.ID, th[t].o)
    /\ Goto(t, [th[t] EXCEPT !.pc = "sp_init"])
    /\ UNCHANGED <<nextPID, uniqID, heap, names, aliases, nodeStopped, optsCancelled, behaviors, seq>>
    /\ Internal

\* behavior.ProcessInit returns, fails or panics
SpawnInit(t, outcome) ==
    /\ th[t].pc = "sp_init"
    /\ LET o == th[t].o IN
       CASE outcome = "ok" ->
              /\ heap' = [heap EXCEPT ![o].stage = "launched"]
              /\ Goto(t, [th[t] EXCEPT !.pc = "sp_wait"])
              /\ Internal
         [] outcome = "err" ->
              /\ heap' = [heap EXCEPT ![o].stage = "failed"]
              /\ Return(t, "spawn", "ErrInit")
         [] outcome = "panic" ->
              /\ CatchPanic
              /\ heap' = [heap EXCEPT ![o].stage = "failed"]
              /\ Goto(t, [th[t] EXCEPT !.pc = "sp_dp_procs"])
              /\ Internal
    /\ UNCHANGED <<nextPID, uniqID, processes, names, aliases, nodeStopped, optsCancelled, behaviors, seq>>

\* the recovery of a panic in init: deleteProcess on the caller's thread
SpawnPanicProcs(t) ==
    /\ th[t].pc = "sp_dp_procs"
    /\ LET pid == heap[th[t].o].self IN
       IF pid.ID \in DOMAIN processes
       THEN /\ processes' = deleteProcessId(processes, pid)
            /\ Goto(t, [th[t] EXCEPT !.pc = "sp_dp_names", !.owner = processes[pid.ID]])
            /\ Internal
       ELSE /\ Return(t, "spawn", "panic")
            /\ UNCHANGED processes
    /\ UNCHANGED <<nextPID, uniqID, heap, names, aliases, nodeStopped, optsCancelled, behaviors, seq>>

SpawnPanicNames(t) ==
    /\ th[t].pc = "sp_dp_names"
    /\ names' = deleteProcessNames(names, th[t].owner)
    /\ Goto(t, [th[t] EXCEPT !.pc = "sp_dp_aliases"])
    /\ UNCHANGED <<nextPID, uniqID, heap, processes, aliases, nodeStopped, optsCancelled, behaviors, seq>>
    /\ Internal

SpawnPanicAliases(t) ==
    /\ th[t].pc = "sp_dp_aliases"
    /\ aliases' = deleteProcessAliases(aliases)
    /\ Return(t, "spawn", "panic")
    /\ UNCHANGED <<nextPID, uniqID, heap, processes, names, nodeStopped, optsCancelled, behaviors, seq>>

\* the loop signals started and spawn, waiting on the channel, returns
SpawnStarted(t) ==
    /\ th[t].pc = "sp_wait"
    /\ heap[th[t].o].stage = "launched"
    /\ heap' = [heap EXCEPT ![th[t].o].stage = "running", ![th[t].o].started = TRUE]
    /\ Return(t, "spawn", "nil")
    /\ UNCHANGED <<nextPID, uniqID, processes, names, aliases, nodeStopped, optsCancelled, behaviors, seq>>

\* --------------------------------------------------------- termination
\* behavior.ProcessLoop returns (or panics, reason "panic") and
\* cleanProcess sets gracefulExit to nil
LoopReturn(o, reason) ==
    /\ heap[o].stage \in {"launched", "running"}
    /\ reason = "panic" => CatchPanic
    /\ heap' = [heap EXCEPT ![o].stage = "dp_procs", ![o].reason = reason,
                            ![o].gracefulExitNil = TRUE]
    /\ UNCHANGED <<nextPID, uniqID, processes, names, aliases, nodeStopped,
                   optsCancelled, th, behaviors, seq>>
    /\ Internal

CleanProcesses(o) ==
    /\ heap[o].stage = "dp_procs"
    /\ LET pid == heap[o].self IN
       IF pid.ID \in DOMAIN processes
       THEN /\ processes' = deleteProcessId(processes, pid)
            /\ heap' = [heap EXCEPT ![o].stage = "dp_names", ![o].dp = processes[pid.ID]]
       ELSE /\ heap' = [heap EXCEPT ![o].stage = "kill"]
            /\ UNCHANGED processes
    /\ UNCHANGED <<nextPID, uniqID, names, aliases, nodeStopped, optsCancelled, th, behaviors, seq>>
    /\ Internal

CleanNames(o) ==
    /\ heap[o].stage = "dp_names"
    /\ names' = deleteProcessNames(names, heap[o].dp)
    /\ heap' = [heap EXCEPT ![o].stage = "dp_aliases"]
    /\ UNCHANGED <<nextPID, uniqID, processes, aliases, nodeStopped, optsCancelled, th, behaviors, seq>>
    /\ Internal

CleanAliases(o) ==
    /\ heap[o].stage = "dp_aliases"
    /\ aliases' = deleteProcessAliases(aliases)
    /\ heap' = [heap EXCEPT ![o].stage = "kill"]
    /\ UNCHANGED <<nextPID, uniqID, processes, names, nodeStopped, optsCancelled, th, behaviors, seq>>
    /\ Internal

\* process.Kill(): the cancel function of the context made from core.ctx
CleanKill(o) ==
    /\ heap[o].stage = "kill"
    /\ heap' = [heap EXCEPT ![o].stage = "notify", ![o].killed = TRUE]
    /\ UNCHANGED <<nextPID, uniqID, processes, names, aliases, nodeStopped,
                   optsCancelled, th, behaviors, seq>>
    /\ Internal

\* handleTerminated(process.self, name, reason)
CleanNotify(o) ==
    /\ heap[o].stage = "notify"
    /\ heap' = [heap EXCEPT ![o].stage = "blank", ![o].notified = @ + 1,
                            ![o].reason = ""]
    /\ UNCHANGED <<nextPID, uniqID, processes, names, aliases, nodeStopped,
                   optsCancelled, th, behaviors, seq>>
    /\ Internal

\* the mutable fields are emptied; self and name stay
CleanBlank(o) ==
    /\ heap[o].stage = "blank"
    /\ heap' = [heap EXCEPT ![o].stage = "done", ![o].aliases = <<>>,
                            ![o].mailBox = <<>>, ![o].mailBoxNil = TRUE]
    /\ UNCHANGED <<nextPID, uniqID, processes, names, aliases, nodeStopped,
                   optsCancelled, th, behaviors, seq>>
    /\ Internal

\* --------------------------------------------------------- exit
\* process.SetTrapExit, called by the process in its loop
SetTrapExit(o, trap) ==
    /\ heap[o].stage = "running"
    /\ heap[o].trapExit # trap
    /\ heap' = [heap EXCEPT ![o].trapExit = trap]
    /\ Internal
    /\ UNCHANGED <<nextPID, uniqID, processes, names, aliases, nodeStopped,
                   optsCancelled, th, behaviors, seq>>

\* process.exit: processContext.Err() != nil
exit(t, o, from, reason) ==
    /\ th[t].pc = "idle"
    /\ LET a == [Idle EXCEPT !.op = "exit", !.o = o, !.from = from, !.reason = reason]
       IN IF ContextErr(o)
          THEN ReturnWith(t, "exit", "ErrProcessUnknown", a, 0)
          ELSE /\ Goto(t, [a EXCEPT !.pc = "ex_send"])
               /\ Internal
    /\ UNCHANGED <<nextPID, uniqID, heap, processes, names, aliases, nodeStopped,
                   optsCancelled, behaviors, seq>>

\* select { case process.gracefulExit <- ex: default: }; the field is read
\* without a lock, so once cleanProcess has set it to nil the send meets
\* nil or the channel that was there (stale)
exitSend(t, stale) ==
    /\ th[t].pc = "ex_send"
    /\ stale => heap[th[t].o].gracefulExitNil
    /\ LET o == th[t].o IN
       IF (heap[o].gracefulExitNil /\ ~stale) \/ Len(heap[o].gracefulExit) >= heap[o].cap
       THEN /\ Return(t, "exit", "ErrProcessBusy")
            /\ UNCHANGED heap
       ELSE /\ heap' = [heap EXCEPT ![o].gracefulExit =
                           Append(@, <<th[t].from, th[t].reason>>)]
            /\ Goto(t, [th[t] EXCEPT !.pc = "ex_kill"])
            /\ Internal
    /\ UNCHANGED <<nextPID, uniqID, processes, names, aliases, nodeStopped,
                   optsCancelled, behaviors, seq>>

\* if !process.trapExit { process.kill() }; cleanProcess sets the kill
\* field to nil without a lock, so the call meets nil (and panics) or the
\* function that was there (stale)
exitKill(t, stale) ==
    /\ th[t].pc = "ex_kill"
    /\ stale => heap[th[t].o].mailBoxNil
    /\ LET o == th[t].o IN
       IF heap[o].trapExit
       THEN /\ ~stale
            /\ Return(t, "exit", "nil")
            /\ UNCHANGED heap
       ELSE IF heap[o].mailBoxNil /\ ~stale
       THEN /\ Return(t, "exit", "panic")
            /\ UNCHANGED heap
       ELSE /\ heap' = [heap EXCEPT ![o].killed = TRUE]
            /\ Return(t, "exit", "nil")
    /\ UNCHANGED <<nextPID, uniqID, processes, names, aliases, nodeStopped,
                   optsCancelled, behaviors, seq>>

\* --------------------------------------------------------- aliases
\* newAlias: is the process registered
newAlias(t, o) ==
    /\ th[t].pc = "idle"
    /\ RefsMinted + Cardinality({u \in DOMAIN th : th[u].pc = "na_insert"}) < MaxRefs
    /\ IF heap[o].self.ID \in DOMAIN processes
       THEN /\ Goto(t, [Idle EXCEPT !.pc = "na_insert", !.op = "newAlias", !.o = o])
            /\ Internal
       ELSE ReturnWith(t, "newAlias", "ErrProcessUnknown", [Idle EXCEPT !.o = o], 0)
    /\ UNCHANGED <<nextPID, uniqID, heap, processes, names, aliases, nodeStopped,
                   optsCancelled, behaviors, seq>>

\* newAlias: MakeRef and the insertion into the alias table
newAliasInsert(t) ==
    /\ th[t].pc = "na_insert"
    /\ uniqID' = AddUniq(uniqID)
    /\ aliases' = Put(aliases, MakeRef(uniqID'), th[t].o)
    /\ Goto(t, [th[t] EXCEPT !.pc = "na_append", !.alias = MakeRef(uniqID')])
    /\ Internal
    /\ UNCHANGED <<nextPID, heap, processes, names, nodeStopped, optsCancelled, behaviors, seq>>

\* newAlias: the alias is appended to p.aliases and returned
newAliasAppend(t) ==
    /\ th[t].pc = "na_append"
    /\ heap' = [heap EXCEPT ![th[t].o].aliases = Append(@, th[t].alias)]
    /\ Return(t, "newAlias", "nil")
    /\ UNCHANGED <<nextPID, uniqID, processes, names, aliases, nodeStopped,
                   optsCancelled, behaviors, seq>>

\* a deletion that leaves the table as it is
dropAliasKept(al, alias) == al

\* delete(c.aliases, alias)
dropAlias(al, alias) == Drop(al, alias)

\* a removal that forgets to move the first alias into the freed place
removeAliasFirst(s, i) == Tail(s)

\* p.aliases[i] = p.aliases[0]; p.aliases = p.aliases[1:]
removeAlias(s, i) == Tail([s EXCEPT ![i] = s[1]])

\* deleteAlias: the lookup of the alias
deleteAlias(t, owner, alias) ==
    /\ th[t].pc = "idle"
    /\ IF alias \in DOMAIN aliases
       THEN /\ Goto(t, [Idle EXCEPT !.pc = "da_check", !.op = "deleteAlias",
                                    !.owner = owner, !.alias = alias,
                                    !.o = aliases[alias]])
            /\ Internal
       ELSE ReturnWith(t, "deleteAlias", "ErrAliasUnknown",
                       [Idle EXCEPT !.owner = owner, !.alias = alias], 0)
    /\ UNCHANGED <<nextPID, uniqID, heap, processes, names, aliases, nodeStopped,
                   optsCancelled, behaviors, seq>>

\* an ownership test that lets every caller through
aliasOwnerAny(p, owner) == TRUE

\* p.self != owner.self, for the process p the table holds under the alias
aliasOwner(p, owner) == heap[p].self = heap[owner].self

\* deleteAlias: is the caller registered, and is it the owner
deleteAliasCheck(t) ==
    /\ th[t].pc = "da_check"
    /\ IF heap[th[t].owner].self.ID \notin DOMAIN processes
       THEN Return(t, "deleteAlias", "ErrProcessUnknown")
       ELSE IF ~aliasOwner(th[t].o, th[t].owner)
       THEN Return(t, "deleteAlias", "ErrAliasOwner")
       ELSE /\ Goto(t, [th[t] EXCEPT !.pc = "da_remove"])
            /\ Internal
    /\ UNCHANGED <<nextPID, uniqID, heap, processes, names, aliases, nodeStopped,
                   optsCancelled, behaviors, seq>>

\* deleteAlias: under the lock of p, the alias leaves the table and p.aliases
deleteAliasRemove(t) ==
    /\ th[t].pc = "da_remove"
    /\ LET p == th[t].o
           found == {i \in DOMAIN heap[p].aliases : heap[p].aliases[i] = th[t].alias}
       IN IF found # {}
          THEN /\ aliases' = dropAlias(aliases, th[t].alias)
               /\ heap' = [heap EXCEPT ![p].aliases =
                              removeAlias(@, CHOOSE i \in found : \A j \in found : i <= j)]
               /\ Return(t, "deleteAlias", "nil")
          ELSE /\ Goto(t, [th[t] EXCEPT !.pc = "da_lost"])
               /\ Internal
               /\ UNCHANGED <<heap, aliases>>
    /\ UNCHANGED <<nextPID, uniqID, processes, names, nodeStopped, optsCancelled, behaviors, seq>>

\* deleteAlias: the process lost its alias
deleteAliasLost(t) ==
    /\ th[t].pc = "da_lost"
    /\ aliases' = dropAlias(aliases, th[t].alias)
    /\ Return(t, "deleteAlias", "ErrAliasUnknown")
    /\ UNCHANGED <<nextPID, uniqID, heap, processes, names, nodeStopped, optsCancelled, behaviors, seq>>

\* --------------------------------------------------------- routing
\* a test of the creation that is never met
previousIncarnationNever(to) == FALSE

\* to.Creation != c.creation: the pid is of a previous incarnation
previousIncarnation(to) == to.Creation # Creation

\* the sender is of another node
alienSender(from) == from.Node # NodeName

\* a send that makes room in a full channel by dropping its oldest element
trySendEvict(mb, cap, e) == IF Len(mb) < cap THEN Append(mb, e) ELSE Append(Tail(mb), e)

\* a send that puts the element in front of the ones already there
trySendFront(mb, cap, e) == IF Len(mb) < cap THEN <<e>> \o mb ELSE mb

\* the non-blocking send to a channel of capacity cap holding mb
trySend(mb, cap, e) == IF Len(mb) < cap THEN Append(mb, e) ELSE mb

\* a RouteSend that takes every receiver for a process of this node
RouteSendBodyLocal(t, a) ==
    /\ IF alienSender(a.from)
       THEN ReturnWith(t, a.op, "ErrSenderUnknown", a, 0)
       ELSE IF previousIncarnation(a.to)
       THEN ReturnWith(t, a.op, "ErrProcessIncarnation", a, 0)
       ELSE IF a.to.ID \notin DOMAIN processes
       THEN ReturnWith(t, a.op, "ErrProcessUnknown", a, 0)
       ELSE /\ Goto(t, [a EXCEPT !.pc = "rs_enq", !.o = processes[a.to.ID]])
            /\ Internal
    /\ UNCHANGED <<nextPID, uniqID, heap, processes, names, aliases, nodeStopped,
                   optsCancelled, behaviors, seq>>

\* RouteSend up to the lookup of the receiver (or of the sender, when the
\* receiver is remote); a holds from, to and the message
RouteSendBody(t, a) ==
    /\ IF alienSender(a.from)
       THEN ReturnWith(t, a.op, "ErrSenderUnknown", a, 0)
       ELSE IF a.to.Node = NodeName
       THEN IF previousIncarnation(a.to)
            THEN ReturnWith(t, a.op, "ErrProcessIncarnation", a, 0)
            ELSE IF a.to.ID \notin DOMAIN processes
            THEN ReturnWith(t, a.op, "ErrProcessUnknown", a, 0)
            ELSE /\ Goto(t, [a EXCEPT !.pc = "rs_enq", !.o = processes[a.to.ID]])
                 /\ Internal
       ELSE IF a.from.ID \notin DOMAIN processes
       THEN ReturnWith(t, a.op, "ErrSenderUnknown", a, 0)
       ELSE /\ Goto(t, [a EXCEPT !.pc = "conn", !.o = processes[a.from.ID]])
            /\ Internal
    /\ UNCHANGED <<nextPID, uniqID, heap, processes, names, aliases, nodeStopped,
                   optsCancelled, behaviors, seq>>

RouteSend(t, from, to, msg) ==
    /\ th[t].pc = "idle"
    /\ RouteSendBody(t, [Idle EXCEPT !.op = "RouteSend", !.from = from, !.to = to,
                                     !.msg = msg])

\* RouteSend called by RouteSendReg or RouteSendAlias with the pid they found
RouteSendInner(t) ==
    /\ th[t].pc = "rs"
    /\ RouteSendBody(t, th[t])

\* select { case p.mailBox <- message: default: }; the mailBox field is
\* read without the lock of p, so once cleanProcess has set it to nil the
\* send meets nil (and is dropped) or the channel that was there
RouteSendEnqueue(t, stale) ==
    /\ th[t].pc = "rs_enq"
    /\ LET p == th[t].o IN
       IF heap[p].mailBoxNil
       THEN /\ Return(t, th[t].op, IF stale THEN "nil" ELSE "ErrMailboxFull")
            /\ UNCHANGED heap
       ELSE /\ ~stale
            /\ heap' = [heap EXCEPT ![p].mailBox =
                           trySend(@, heap[p].cap, <<th[t].from, th[t].msg>>)]
            /\ Return(t, th[t].op, IF Len(heap[p].mailBox) < heap[p].cap
                                   THEN "nil" ELSE "ErrMailboxFull")
    /\ UNCHANGED <<nextPID, uniqID, processes, names, aliases, nodeStopped,
                   optsCancelled, behaviors, seq>>

\* GetConnection(to.Node) and connection.Send / SendReg / SendAlias
RouteRemote(t, outcome) ==
    /\ th[t].pc = "conn"
    /\ ReturnWith(t, th[t].op, outcome, th[t], IF outcome = "ErrNoRoute" THEN 0 ELSE 1)
    /\ UNCHANGED <<nextPID, uniqID, heap, processes, names, aliases, nodeStopped,
                   optsCancelled, behaviors, seq>>

RouteSendReg(t, from, node, name, msg) ==
    /\ th[t].pc = "idle"
    /\ LET a == [Idle EXCEPT !.op = "RouteSendReg", !.from = from, !.node = node,
                             !.name = name, !.msg = msg]
       IN IF alienSender(from)
          THEN ReturnWith(t, a.op, "ErrSenderUnknown", a, 0)
          ELSE IF node = NodeName
          THEN IF name \notin DOMAIN names
               THEN ReturnWith(t, a.op, "ErrProcessUnknown", a, 0)
               ELSE /\ Goto(t, [a EXCEPT !.pc = "rs", !.to = names[name]])
                    /\ Internal
          ELSE IF from.ID \notin DOMAIN processes
          THEN ReturnWith(t, a.op, "ErrSenderUnknown", a, 0)
          ELSE /\ Goto(t, [a EXCEPT !.pc = "conn", !.o = processes[from.ID]])
               /\ Internal
    /\ UNCHANGED <<nextPID, uniqID, heap, processes, names, aliases, nodeStopped,
                   optsCancelled, behaviors, seq>>

RouteSendAlias(t, from, alias, msg) ==
    /\ th[t].pc = "idle"
    /\ LET a == [Idle EXCEPT !.op = "RouteSendAlias", !.from = from,
                             !.alias = alias, !.msg = msg]
       IN IF alienSender(from)
          THEN ReturnWith(t, a.op, "ErrSenderUnknown", a, 0)
          ELSE IF alias.Node = NodeName
          THEN IF alias \notin DOMAIN aliases
               THEN ReturnWith(t, a.op, "ErrProcessUnknown", a, 0)
               ELSE /\ Goto(t, [a EXCEPT !.pc = "rs", !.to = heap[aliases[alias]].self])
                    /\ Internal
          ELSE IF from.ID \notin DOMAIN processes
          THEN ReturnWith(t, a.op, "ErrSenderUnknown", a, 0)
          ELSE /\ Goto(t, [a EXCEPT !.pc = "conn", !.o = processes[from.ID]])
               /\ Internal
    /\ UNCHANGED <<nextPID, uniqID, heap, processes, names, aliases, nodeStopped,
                   optsCancelled, behaviors, seq>>

\* the behavior loop takes the oldest message of its mailbox
Receive(o) ==
    /\ heap[o].stage = "running"
    /\ ~heap[o].mailBoxNil
    /\ heap[o].mailBox # <<>>
    /\ heap' = [heap EXCEPT ![o].mailBox = Tail(@)]
    /\ Internal
    /\ UNCHANGED <<nextPID, uniqID, processes, names, aliases, nodeStopped,
                   optsCancelled, th, behaviors, seq>>

\* --------------------------------------------------------- specification
Selfs == {heap[o].self : o \in Objects}

Init ==
    /\ nextPID = startPID
    /\ uniqID = UniqStart
    /\ heap = <<>>
    /\ processes = EmptyMap
    /\ names = EmptyMap
    /\ aliases = EmptyMap
    /\ nodeStopped = FALSE
    /\ optsCancelled = FALSE
    /\ th = [t \in Threads |-> Idle]
    /\ behaviors = EmptyMap
    /\ seq = [t \in Threads |-> 0]
    /\ ret = NoRet

\* the steps of spawn after newProcess has made the process object
SpawnSteps(t) ==
    \/ SpawnProcess(t)
    \/ \E outcome \in {"ok", "err", "panic"} : SpawnInit(t, outcome)
    \/ SpawnPanicProcs(t)
    \/ SpawnPanicNames(t)
    \/ SpawnPanicAliases(t)
    \/ SpawnStarted(t)

\* the cleanup of a process whose loop has returned
CleanSteps(o) ==
    \/ CleanProcesses(o)
    \/ CleanNames(o)
    \/ CleanAliases(o)
    \/ CleanKill(o)
    \/ CleanNotify(o)
    \/ CleanBlank(o)

AliasSteps(t) ==
    \/ newAliasInsert(t)
    \/ newAliasAppend(t)
    \/ \E o \in Objects, alias \in Minted \cup {BogusAlias} : deleteAlias(t, o, alias)
    \/ deleteAliasCheck(t)
    \/ deleteAliasRemove(t)
    \/ deleteAliasLost(t)

\* processes, names and the life of a process, with two callers
Next ==
    \/ \E t \in Threads, name \in Names \cup {""} : SpawnNew(t, name, 0, FALSE)
    \/ \E t \in Threads : SpawnName(t)
    \/ \E t \in Threads : SpawnSteps(t)
    \/ \E o \in Objects, reason \in {"normal", "panic"} : LoopReturn(o, reason)
    \/ \E o \in Objects : CleanSteps(o)
    \/ \E name \in Names, pid \in Selfs \cup {StalePid} : registerName(name, pid)
    \/ \E name \in Names : unregisterName(name)
    \/ coreStop

Spec == Init /\ [][Next]_vars

\* spawn with an init that succeeds
SpawnOk(t) ==
    \/ SpawnProcess(t)
    \/ SpawnInit(t, "ok")
    \/ SpawnStarted(t)

\* aliases and the life of their owners, with one caller
NextAlias ==
    \/ SpawnNew(1, "", 0, FALSE)
    \/ SpawnOk(1)
    \/ \E o \in Objects : LoopReturn(o, "normal")
    \/ \E o \in Objects : CleanSteps(o)
    \/ \E o \in Objects : newAlias(1, o)
    \/ AliasSteps(1)
    \/ \E name \in Names, pid \in Selfs : registerName(name, pid)
    \/ \E name \in Names : unregisterName(name)

SpecAlias == Init /\ [][NextAlias]_vars

\* the send routers, with one caller
NextRoute ==
    \/ \E name \in Names \cup {""} :
          Len(heap) < MaxRouteProcs /\ SpawnNew(1, name, 2, FALSE)
    \/ SpawnName(1)
    \/ SpawnOk(1)
    \/ \E o \in Objects : LoopReturn(o, "normal")
    \/ \E o \in Objects : CleanSteps(o)
    \/ \E o \in Objects : RefsMinted < MaxRouteRefs /\ newAlias(1, o)
    \/ AliasSteps(1)
    \/ \E from \in Selfs \cup {StalePid, AlienPid}, to \in Selfs \cup {StalePid, AlienPid},
          msg \in Msgs : RouteSend(1, from, to, msg)
    \/ RouteSendInner(1)
    \/ \E stale \in BOOLEAN : RouteSendEnqueue(1, stale)
    \/ \E outcome \in {"nil", "ErrNoRoute", "ErrConn"} : RouteRemote(1, outcome)
    \/ \E from \in Selfs \cup {StalePid, AlienPid}, node \in {NodeName, OtherNode},
          name \in Names, msg \in Msgs : RouteSendReg(1, from, node, name, msg)
    \/ \E from \in Selfs \cup {StalePid, AlienPid},
          alias \in Minted \cup {BogusAlias, AlienAlias},
          msg \in Msgs : RouteSendAlias(1, from, alias, msg)
    \/ \E o \in Objects : Receive(o)
    \/ \E name \in Names, pid \in Selfs \cup {StalePid, AlienPid} : registerName(name, pid)

SpecRoute == Init /\ [][NextRoute]_vars

\* a caller goes on to the next message of its sequence
NextMessage(t) ==
    /\ th[t].pc = "idle"
    /\ seq[t] < MaxMsgs
    /\ seq' = [seq EXCEPT ![t] = @ + 1]
    /\ Internal
    /\ UNCHANGED <<nextPID, uniqID, heap, processes, names, aliases, nodeStopped,
                   optsCancelled, th, behaviors>>

\* two callers, each sending its sequence of messages as its own process
NextOrder ==
    \/ SpawnNew(1, "", MailboxSize, FALSE)
    \/ SpawnOk(1)
    \/ \E t \in Threads : NextMessage(t)
    \/ \E t \in Threads \cap Objects, to \in Selfs :
          seq[t] > 0 /\ RouteSend(t, heap[t].self, to, seq[t])
    \/ \E t \in Threads, stale \in BOOLEAN : RouteSendEnqueue(t, stale)
    \/ \E o \in Objects : Receive(o)

SpecOrder == Init /\ [][NextOrder]_vars

\* the node is stopped while processes, of either context, live and callers wait
NextStop ==
    \/ \E useOpts \in BOOLEAN : SpawnNew(1, "", 0, useOpts)
    \/ SpawnOk(1)
    \/ \E o \in Objects : LoopReturn(o, "normal")
    \/ \E o \in Objects : CleanSteps(o)
    \/ coreStop
    \/ CancelOptsContext
    \/ coreWait(2)
    \/ coreWaitReturn(2)
    \/ coreWaitWithTimeout(2)
    \/ TimerFires(2)
    \/ \E pick \in {"timer", "done"} : coreWaitSelect(2, pick)
    \/ coreWaitWake(2)
    \/ coreIsAlive

SpecStop == Init /\ [][NextStop]_vars

\* exits sent by a second caller to processes of either context
NextExit ==
    \/ \E useOpts \in BOOLEAN :
          Len(heap) < MaxExitProcs /\ SpawnNew(1, "", ExitQueueSize, useOpts)
    \/ SpawnOk(1)
    \/ \E o \in Objects, trap \in BOOLEAN : SetTrapExit(o, trap)
    \/ \E o \in Objects : LoopReturn(o, "normal")
    \/ \E o \in Objects : CleanSteps(o)
    \/ coreStop
    \/ CancelOptsContext
    \/ \E o \in Objects, from \in Selfs, reason \in {"normal", "kill"} :
          exit(2, o, from, reason)
    \/ \E stale \in BOOLEAN : exitSend(2, stale)
    \/ \E stale \in BOOLEAN : exitKill(2, stale)

SpecExit == Init /\ [][NextExit]_vars

\* spawns whose init succeeds, with loops that return or panic at any
\* moment after they were launched
NextSpawn ==
    \/ \E t \in Threads : SpawnNew(t, "", 0, FALSE)
    \/ \E t \in Threads : SpawnOk(t)
    \/ \E o \in Objects, reason \in {"normal", "panic"} : LoopReturn(o, reason)
    \/ \E o \in Objects : CleanSteps(o)

\* the scheduler runs every goroutine that can take a step: the callers in
\* spawn and the cleanups; a loop need not ever return
FairSpawn ==
    /\ \A t \in Threads : WF_vars(SpawnOk(t))
    /\ \A o \in 1..MaxProcs : WF_vars(o \in Objects /\ CleanSteps(o))

SpecSpawn == Init /\ [][NextSpawn]_vars /\ FairSpawn

\* --------------------------------------------------------- locking
\* the Lock and Unlock calls of each operation, in the order in which each
\* of its paths makes them; "process" is the mutex of the process object
Lock(m) == <<"Lock", m>>
Unlock(m) == <<"Unlock", m>>
Section(m) == <<Lock(m), Unlock(m)>>

IsAliasLocks == {Section("aliases")}

newAliasLocks ==
    {Section("processes"),
     Section("processes") \o Section("aliases") \o Section("process")}

deleteAliasLocks ==
    {Section("aliases"),
     Section("aliases") \o Section("processes"),
     Section("aliases") \o Section("processes")
        \o <<Lock("process"), Lock("aliases"), Unlock("aliases"), Unlock("process")>>,
     Section("aliases") \o Section("processes") \o Section("process")
        \o Section("aliases")}

newProcessLocks ==
    {Section("names"), Section("names") \o Section("processes"), Section("processes")}

deleteProcessLocks ==
    {Section("processes"),
     Section("processes") \o Section("names") \o Section("aliases")}

cleanProcessLocks == {path \o Section("process") : path \in deleteProcessLocks}

registerNameLocks == {Section("names")}

unregisterNameLocks == {Section("names")}

RegisterBehaviorLocks == {Section("behaviors")}

RegisteredBehaviorLocks == {Section("behaviors")}

RegisteredBehaviorGroupLocks == {Section("behaviors")}

UnregisterBehaviorLocks == {Section("behaviors")}

ProcessByPidLocks == {Section("processes")}

ProcessByAliasLocks == {Section("aliases")}

ProcessByNameLocks ==
    {Section("names")} \cup {Section("names") \o path : path \in ProcessByPidLocks}
        \cup ProcessByPidLocks

ProcessListLocks == {Section("processes")}

RouteSendLocks == {<<>>, Section("processes")}

RouteSendRegLocks ==
    {<<>>, Section("names"), Section("processes")}
        \cup {Section("names") \o path : path \in RouteSendLocks}

RouteSendAliasLocks ==
    {<<>>, Section("aliases"), Section("processes")}
        \cup {Section("aliases") \o path : path \in RouteSendLocks}

LockPaths ==
    [IsAlias |-> IsAliasLocks, newAlias |-> newAliasLocks,
     deleteAlias |-> deleteAliasLocks, newProcess |-> newProcessLocks,
     deleteProcess |-> deleteProcessLocks, cleanProcess |-> cleanProcessLocks,
     registerName |-> registerNameLocks, unregisterName |-> unregisterNameLocks,
     RegisterBehavior |-> RegisterBehaviorLocks,
     RegisteredBehavior |-> RegisteredBehaviorLocks,
     RegisteredBehaviorGroup |-> RegisteredBehaviorGroupLocks,
     UnregisterBehavior |-> UnregisterBehaviorLocks,
     ProcessByPid |-> ProcessByPidLocks, ProcessByAlias |-> ProcessByAliasLocks,
     ProcessByName |-> ProcessByNameLocks, ProcessList |-> ProcessListLocks,
     RouteSend |-> RouteSendLocks, RouteSendReg |-> RouteSendRegLocks,
     RouteSendAlias |-> RouteSendAliasLocks]

\* the mutexes thread t holds
Held(t) == SeqSet(th[t].held)

\* a thread calls an operation and takes one of its paths
LockCall(t, op, path) ==
    /\ th[t].pc = "idle"
    /\ Goto(t, [Idle EXCEPT !.pc = "locks", !.op = op, !.prog = path])
    /\ Internal
    /\ UNCHANGED <<nextPID, uniqID, heap, processes, names, aliases, nodeStopped,
                   optsCancelled, behaviors, seq>>

\* m.Lock(): waits while another thread (or this one) holds m
LockAcquire(t) ==
    /\ th[t].pc = "locks"
    /\ th[t].prog # <<>>
    /\ Head(th[t].prog)[1] = "Lock"
    /\ \A u \in Threads : Head(th[t].prog)[2] \notin Held(u)
    /\ Goto(t, [th[t] EXCEPT !.held = Append(@, Head(th[t].prog)[2]), !.prog = Tail(@)])
    /\ Internal
    /\ UNCHANGED <<nextPID, uniqID, heap, processes, names, aliases, nodeStopped,
                   optsCancelled, behaviors, seq>>

\* m.Unlock()
LockRelease(t) ==
    /\ th[t].pc = "locks"
    /\ th[t].prog # <<>>
    /\ Head(th[t].prog)[1] = "Unlock"
    /\ Goto(t, [th[t] EXCEPT !.held = SelectSeq(@, LAMBDA m : m # Head(th[t].prog)[2]),
                             !.prog = Tail(@)])
    /\ Internal
    /\ UNCHANGED <<nextPID, uniqID, heap, processes, names, aliases, nodeStopped,
                   optsCancelled, behaviors, seq>>

LockReturn(t) ==
    /\ th[t].pc = "locks"
    /\ th[t].prog = <<>>
    /\ Return(t, th[t].op, "nil")
    /\ UNCHANGED <<nextPID, uniqID, heap, processes, names, aliases, nodeStopped,
                   optsCancelled, behaviors, seq>>

\* two threads running the operations of the core, lock by lock
NextLock ==
    \/ \E t \in Threads, op \in DOMAIN LockPaths : \E path \in LockPaths[op] :
          LockCall(t, op, path)
    \/ \E t \in Threads : LockAcquire(t)
    \/ \E t \in Threads : LockRelease(t)
    \/ \E t \in Threads : LockReturn(t)

SpecLock == Init /\ [][NextLock]_vars

\* the registrations of behaviors
NextBehavior ==
    \/ \E group \in Groups, name \in BehaviorNames, data \in Data :
          RegisterBehavior(group, name, data)
    \/ \E group \in Groups, name \in BehaviorNames : UnregisterBehavior(group, name)

SpecBehavior == Init /\ [][NextBehavior]_vars

\* values of the 64-bit counter at the start of the node: around the ends
\* of each of its three bit fields
RefStarts ==
    {[hi |-> h, mid |-> m, lo |-> l] :
        h \in {0, 24000, TwoPow18 - 1},
        m \in {0, 1, 2, TwoPow28 - 1},
        l \in {0, 1, TwoPow18 - 2, TwoPow18 - 1}}

RECURSIVE AddUniqTimes(_, _)
AddUniqTimes(u, k) == IF k = 0 THEN u ELSE AddUniq(AddUniqTimes(u, k - 1))

\* a call of MakeRef
MakeRefCall ==
    /\ \E u \in RefStarts, k \in 0..(MaxRefs - 1) : uniqID = AddUniqTimes(u, k)
    /\ uniqID' = AddUniq(uniqID)
    /\ ReturnNow("MakeRef", "nil", [Idle EXCEPT !.alias = MakeRef(uniqID')])
    /\ UNCHANGED <<nextPID, heap, processes, names, aliases, nodeStopped,
                   optsCancelled, th, behaviors, seq>>

InitRef ==
    /\ nextPID = startPID
    /\ uniqID \in RefStarts
    /\ heap = <<>>
    /\ processes = EmptyMap
    /\ names = EmptyMap
    /\ aliases = EmptyMap
    /\ nodeStopped = FALSE
    /\ optsCancelled = FALSE
    /\ th = [t \in Threads |-> Idle]
    /\ behaviors = EmptyMap
    /\ seq = [t \in Threads |-> 0]
    /\ ret = NoRet

NextRef == MakeRefCall

\* references made from each start of the counter
SpecRef == InitRef /\ [][NextRef]_vars

\* ================================================================ claims
\* the cleanup of o has taken it out of core.processes
Reaped(o) == heap[o].stage \in {"dp_names", "dp_aliases", "kill", "notify", "blank", "done"}

\* o has died: its cleanup has unregistered it, or its context is cancelled
Dead(o) == Reaped(o) \/ ContextErr(o)

\* ---------------------------------------------------------------- C1
C1_Lookup ==
    \A o \in Objects :
        heap[o].started => ProcessByPid(heap[o].self) = IF Dead(o) THEN 0 ELSE o

C1_DeadForEver ==
    \A o \in Objects : heap[o].started /\ Dead(o) => Dead(o)'

C2_Registers(name, pid, err) ==
    \/ /\ ret'.op = "registerName" /\ ret'.a.name = name /\ ret'.a.to = pid
       /\ ret'.err = err
    \/ \E t \in Threads :
          /\ th[t].pc = "sp_name" /\ th'[t].pc # "sp_name"
          /\ th[t].name = name /\ heap[th[t].o].self = pid
          /\ err = IF th'[t].pc = "sp_proc" THEN "nil" ELSE ret'.err

C2_Step ==
    \A name \in Names, pid \in Selfs \cup {StalePid}, err \in {"nil", "ErrTaken"} :
        C2_Registers(name, pid, err) =>
            IF name \in DOMAIN names
            THEN err = "ErrTaken" /\ names' = names
            ELSE err = "nil" /\ names' = Put(names, name, pid)

C2_Kept ==
    \A name \in DOMAIN names : name \in DOMAIN names' => names'[name] = names[name]

\* C2: a registration of a name (by registerName or by the name step of
\* spawn) wins exactly when the name is free at its critical section: it
\* then returns nil and the name maps to its pid; on a taken name it returns
\* ErrTaken and changes nothing; and a name that stays registered keeps its
\* pid.  So of two registrations that race for a free name, whatever their
\* order, the first wins and the other returns ErrTaken.
C2_RegisterRace == [][C2_Step /\ C2_Kept]_vars

\* registerName has just lost the name against a spawn that registered it
C2_Witness ==
    /\ ret.op = "registerName" /\ ret.err = "ErrTaken"
    /\ ret.a.name \in DOMAIN names
    /\ \E o \in Objects :
          /\ heap[o].name = ret.a.name /\ names[ret.a.name] = heap[o].self
          /\ heap[o].self # ret.a.to

\* ---------------------------------------------------------------- C3
\* C3: every alias in the alias list of a process that spawn returned and
\* that has not died is found by ProcessByAlias, and found to be that process.
C3_AliasOfOwner ==
    \A o \in Objects :
        heap[o].started /\ ~Dead(o) =>
            \A i \in DOMAIN heap[o].aliases :
                ProcessByAlias(heap[o].aliases[i]) = o

\* ---------------------------------------------------------------- C4
\* the step of thread t is the send to the mailbox of p, which is not nil
C4_Sends(t, p) ==
    /\ th[t].pc = "rs_enq" /\ th'[t].pc = "idle"
    /\ th[t].o = p /\ ~heap[p].mailBoxNil

C4_Enqueue ==
    \A t \in Threads, p \in Objects :
        C4_Sends(t, p) =>
            IF Len(heap[p].mailBox) >= heap[p].cap
            THEN heap' = heap /\ ret'.err = "ErrMailboxFull"
            ELSE /\ heap' = [heap EXCEPT ![p].mailBox =
                                Append(heap[p].mailBox, <<th[t].from, th[t].msg>>)]
                 /\ ret'.err = "nil"

C4_NeverBlocks ==
    \A t \in Threads :
        th[t].pc = "rs_enq" => ENABLED (\E stale \in BOOLEAN : RouteSendEnqueue(t, stale))

\* C4: the send of a local RouteSend to a full mailbox drops the message and
\* leaves every mailbox as it was; to a mailbox that is not full it appends
\* the message as the last element; and a caller that has reached the send
\* can always take it (it never waits for room).
C4_Backpressure == []C4_NeverBlocks /\ [][C4_Enqueue]_vars

\* a message has just been dropped on a mailbox that holds cap messages
C4_Witness ==
    /\ ret.op = "RouteSend" /\ ret.err = "ErrMailboxFull"
    /\ ret.a.o \in Objects
    /\ ~heap[ret.a.o].mailBoxNil
    /\ Len(heap[ret.a.o].mailBox) = heap[ret.a.o].cap

\* ---------------------------------------------------------------- C5
\* the arguments of the RouteSend that thread t runs in this step: called
\* by the caller, or by RouteSendReg / RouteSendAlias with the pid they found
C5_Args(t) ==
    IF th[t].pc = "rs" THEN th[t]
    ELSE IF th'[t].pc = "idle" THEN ret'.a ELSE th'[t]

C5_Runs(t) ==
    \/ th[t].pc = "rs" /\ th'[t].pc # "rs"
    \/ /\ th[t].pc = "idle"
       /\ \/ ret'.t = t /\ ret'.op = "RouteSend"
          \/ th'[t].op = "RouteSend"

\* C5: a RouteSend from a sender of this node to a pid of this node whose
\* creation is not the creation of the node returns ErrProcessIncarnation
\* in the step that calls it, and no mailbox is modified.
C5_Incarnation ==
    [][\A t \in Threads :
          C5_Runs(t) /\ ~alienSender(C5_Args(t).from)
                     /\ C5_Args(t).to.Node = NodeName
                     /\ C5_Args(t).to.Creation # Creation =>
              /\ ret'.err = "ErrProcessIncarnation"
              /\ th'[t].pc = "idle"
              /\ heap' = heap]_vars

\* RouteSend to the pid of the previous incarnation was refused while a
\* process with the same numeric id is registered with a mailbox to fill
C5_Witness ==
    /\ ret.op = "RouteSend" /\ ret.err = "ErrProcessIncarnation"
    /\ ret.a.to.Creation = Creation - 1
    /\ ret.a.to.ID \in DOMAIN processes
    /\ ~heap[processes[ret.a.to.ID]].mailBoxNil
    /\ Len(heap[processes[ret.a.to.ID]].mailBox) < heap[processes[ret.a.to.ID]].cap

\* ---------------------------------------------------------------- C6
\* C6: RouteSend, RouteSendReg and RouteSendAlias from a pid whose node is
\* not the name of this node, or whose creation is not the creation of this
\* node, return ErrSenderUnknown, fill no mailbox and call no connection.
C6_SenderOfThisNode ==
    [][ret'.op \in {"RouteSend", "RouteSendReg", "RouteSendAlias"}
          /\ (ret'.a.from.Node # NodeName \/ ret'.a.from.Creation # Creation) =>
              /\ ret'.err = "ErrSenderUnknown"
              /\ ret'.sent = 0
              /\ heap' = heap]_vars

\* ---------------------------------------------------------------- C7
\* C7: when the cleanup of a process P completes, no name maps to P.self,
\* whatever registrations of names for P ran while P terminated.
C7_NamesReleased ==
    [][\A o \in Objects :
          heap[o].stage = "blank" /\ heap'[o].stage = "done" =>
              \A name \in DOMAIN names' : names'[name] # heap[o].self]_vars

\* ---------------------------------------------------------------- C8
\* RouteSendAlias finds the alias and goes on with RouteSend to the pid of
\* the process the table holds
C8_Reduces ==
    \A t \in Threads :
        th[t].pc = "idle" /\ th'[t].pc = "rs" /\ th'[t].op = "RouteSendAlias" =>
            /\ th'[t].alias \in DOMAIN aliases
            /\ th'[t].to = heap[aliases[th'[t].alias]].self
            /\ th'[t].to.Node = NodeName /\ th'[t].to.Creation = Creation

\* the send it ends with fills the mailbox of the process of that pid
C8_Delivers ==
    \A t \in Threads, p \in Objects :
        C4_Sends(t, p) /\ th[t].op = "RouteSendAlias" /\ ret'.err = "nil" =>
            /\ heap[p].self = th[t].to
            /\ heap' = [heap EXCEPT ![p].mailBox =
                           Append(heap[p].mailBox, <<th[t].from, th[t].msg>>)]

\* deleteAlias returns nil: the alias is in the table no more
C8_Deleted ==
    ret'.op = "deleteAlias" /\ ret'.err = "nil" => ret'.a.alias \notin DOMAIN aliases'

\* an alias that has left the table does not come back
C8_StaysDeleted ==
    \A alias \in Minted : alias \notin DOMAIN aliases => alias \notin DOMAIN aliases'

\* RouteSendAlias, from a sender of this node, to an alias not in the table
C8_Unknown ==
    \A t \in Threads :
        /\ th[t].pc = "idle" /\ ret'.t = t /\ ret'.op = "RouteSendAlias"
        /\ ~alienSender(ret'.a.from)
        /\ ret'.a.alias \in Minted /\ ret'.a.alias \notin DOMAIN aliases
        => ret'.err = "ErrProcessUnknown" /\ ret'.sent = 0 /\ heap' = heap

\* C8: RouteSendAlias to an alias of the table goes on as RouteSend to the
\* pid of the alias's process and its send appends (from, m) to the mailbox
\* of that process; once deleteAlias has returned nil the alias is, and
\* stays, out of the table, and every RouteSendAlias to it from a sender of
\* this node returns ErrProcessUnknown, fills no mailbox and calls no
\* connection.
C8_SendAlias ==
    [][C8_Reduces /\ C8_Delivers /\ C8_Deleted /\ C8_StaysDeleted /\ C8_Unknown]_vars

\* RouteSendAlias to an alias that was made and deleted returned
\* ErrProcessUnknown while the process that owned it is alive and holds a
\* message
C8_Witness ==
    /\ ret.op = "RouteSendAlias" /\ ret.err = "ErrProcessUnknown"
    /\ ret.a.alias \in Minted
    /\ \E o \in Objects :
          /\ heap[o].started /\ ~Dead(o) /\ heap[o].stage = "running"
          /\ heap[o].mailBox # <<>>

\* ---------------------------------------------------------------- C9
C9_Refused ==
    \A t \in Threads :
        th[t].pc = "da_check" /\ th'[t] # th[t] =>
            LET caller == th[t].owner
                p == th[t].o
            IN IF heap[caller].self.ID \notin DOMAIN processes
               THEN /\ ret'.op = "deleteAlias" /\ ret'.err = "ErrProcessUnknown"
                    /\ registry' = registry /\ heap' = heap
               ELSE IF heap[p].self # heap[caller].self
               THEN /\ ret'.op = "deleteAlias" /\ ret'.err = "ErrAliasOwner"
                    /\ registry' = registry /\ heap' = heap
               ELSE TRUE

C9_OnlyOwner ==
    \A t \in Threads :
        th[t].op = "deleteAlias" /\ th'[t] # th[t]
            /\ th[t].alias \in DOMAIN aliases /\ th[t].alias \notin DOMAIN aliases' =>
                heap[th[t].o].self = heap[th[t].owner].self

\* C9: deleteAlias, having found the alias, returns ErrProcessUnknown when
\* the caller is not in the process table, and otherwise ErrAliasOwner when
\* the alias is of another process; neither changes a table or a process;
\* and a deleteAlias takes an alias out of the table only for its owner.
C9_DeleteAliasOwner == [][C9_Refused /\ C9_OnlyOwner]_vars

\* deleteAlias by a live process was refused with ErrAliasOwner and the
\* alias is still the alias of its live owner
C9_Witness ==
    /\ ret.op = "deleteAlias" /\ ret.err = "ErrAliasOwner"
    /\ ret.a.o # ret.a.owner
    /\ ~Dead(ret.a.o) /\ ~Dead(ret.a.owner)
    /\ ProcessByAlias(ret.a.alias) = ret.a.o
    /\ ret.a.alias \in SeqSet(heap[ret.a.o].aliases)

\* ---------------------------------------------------------------- C10
C10_NameUnknown ==
    \A name \in Names :
        ret'.op = "unregisterName" /\ ret'.a.name = name /\ name \notin DOMAIN names =>
            ret'.err = "ErrNameUnknown" /\ registry' = registry /\ heap' = heap

C10_AliasUnknown ==
    \A t \in Threads :
        /\ th[t].pc = "idle" /\ ret'.t = t /\ ret'.op = "deleteAlias"
        /\ ret'.a.alias \in Minted /\ ret'.a.alias \notin DOMAIN aliases
        => ret'.err = "ErrAliasUnknown" /\ registry' = registry /\ heap' = heap

C10_RemovesExactly ==
    ret'.op = "deleteAlias" /\ ret'.err = "nil" =>
        LET p == ret'.a.o
            alias == ret'.a.alias
        IN /\ aliases' = Drop(aliases, alias)
           /\ SeqSet(heap'[p].aliases) = SeqSet(heap[p].aliases) \ {alias}
           /\ Len(heap'[p].aliases) = Len(heap[p].aliases) - 1
           /\ \A o \in Objects \ {p} : heap'[o] = heap[o]
           /\ processes' = processes /\ names' = names

\* C10: unregisterName of a name that is not registered returns
\* ErrNameUnknown, and deleteAlias of an alias that was made and is in the
\* table no more returns ErrAliasUnknown, both leaving the tables and the
\* processes as they were; a deleteAlias that returns nil takes exactly its
\* alias out of the table and out of the alias list of its process.
C10_Idempotence == [][C10_NameUnknown /\ C10_AliasUnknown /\ C10_RemovesExactly]_vars

\* deleteAlias of an alias deleted before returned ErrAliasUnknown while its
\* live owner keeps its other alias, in its list and in the table
C10_Witness ==
    /\ ret.op = "deleteAlias" /\ ret.err = "ErrAliasUnknown"
    /\ ret.a.alias \in Minted /\ ret.a.alias \notin DOMAIN aliases
    /\ ~Dead(ret.a.owner)
    /\ ret.a.alias \notin SeqSet(heap[ret.a.owner].aliases)
    /\ \E other \in Minted \ {ret.a.alias} :
          /\ other \in SeqSet(heap[ret.a.owner].aliases)
          /\ ProcessByAlias(other) = ret.a.owner

\* ---------------------------------------------------------------- C11
\* C11: every process that spawn returned with a name, and that has not
\* died, is the process its name is registered for (so no other process is
\* registered under that name).
C11_NameOfProcess ==
    \A o \in Objects :
        heap[o].started /\ ~Dead(o) /\ heap[o].name # "" =>
            /\ heap[o].name \in DOMAIN names
            /\ names[heap[o].name] = heap[o].self

\* ---------------------------------------------------------------- C12
\* newProcess has registered the name of pid and not yet the process
C12_Registering(pid) ==
    \E t \in Threads : th[t].pc = "sp_proc" /\ heap[th[t].o].self = pid

\* deleteProcess has unregistered the process of pid and not yet its names
C12_Unregistering(pid) ==
    \/ \E o \in Objects : heap[o].stage = "dp_names" /\ heap[o].self = pid
    \/ \E t \in Threads : th[t].pc = "sp_dp_names" /\ heap[th[t].o].self = pid

\* C12: every pid of the name table is the pid of a process of the process
\* table and every process of the alias table is in the process table (a pid
\* between the two registrations of its newProcess, or between the first two
\* sections of its deleteProcess, set aside).
C12_OnlyRegistered ==
    /\ \A name \in DOMAIN names :
          LET pid == names[name] IN
          ~C12_Registering(pid) /\ ~C12_Unregistering(pid) =>
              /\ pid.ID \in DOMAIN processes
              /\ heap[processes[pid.ID]].self = pid
    /\ \A alias \in DOMAIN aliases :
          LET p == aliases[alias] IN
          /\ heap[p].self.ID \in DOMAIN processes
          /\ processes[heap[p].self.ID] = p

\* ---------------------------------------------------------------- C13
\* the sections of the deleteProcess that the recovery of init's panic runs
C13_RolledBack ==
    \A t \in Threads :
        LET o == th[t].o IN
        /\ th[t].pc = "sp_dp_procs" /\ th'[t] # th[t] =>
              heap[o].self.ID \notin DOMAIN processes'
        /\ th[t].pc = "sp_dp_names" /\ th'[t] # th[t] =>
              /\ heap[o].name \notin DOMAIN names'
              /\ \A name \in DOMAIN names' : names'[name] # heap[o].self
        /\ th[t].pc \in {"sp_dp_procs", "sp_dp_names", "sp_dp_aliases"}
              /\ th'[t].pc = "idle" =>
              /\ ret'.op = "spawn" /\ ret'.err = "panic" /\ ret'.t = t
              /\ heap[o].self.ID \notin DOMAIN processes'
              /\ heap'[o].stage = "failed" /\ ~heap'[o].started

\* a process whose spawn failed never gets a behavior loop
C13_NoLoop ==
    \A o \in Objects :
        heap[o].stage = "failed" => heap'[o].stage = "failed" /\ ~heap'[o].started

\* init panics only on the caller's thread, and the recovery follows
C13_Recovers ==
    \A t \in Threads :
        th[t].pc = "sp_init" /\ th'[t].pc \notin {"sp_init", "sp_wait", "idle"} =>
            th'[t].pc = "sp_dp_procs" /\ heap'[th[t].o].stage = "failed"

\* C13: when init panics (and panics are caught) the caller runs
\* deleteProcess: the process leaves the process table, then its name and
\* every name of its pid leave the name table; spawn then returns the error
\* "panic" with the process out of the process table, and the process never
\* gets a behavior loop.
C13_InitPanic == [][C13_RolledBack /\ C13_NoLoop /\ C13_Recovers]_vars

\* the spawn of a named process has just returned "panic": neither its id
\* nor its name is registered
C13_Witness ==
    /\ ret.op = "spawn" /\ ret.err = "panic"
    /\ ret.a.name # "" /\ ret.a.name \notin DOMAIN names
    /\ heap[ret.a.o].name = ret.a.name
    /\ heap[ret.a.o].self.ID \notin DOMAIN processes
    /\ heap[ret.a.o].stage = "failed"

\* ---------------------------------------------------------------- C14
\* the name step of a spawn whose name is taken
C14_Taken ==
    \A t \in Threads :
        th[t].pc = "sp_name" /\ th'[t] # th[t] /\ th[t].name \in DOMAIN names =>
            /\ ret'.op = "spawn" /\ ret'.err = "ErrTaken" /\ ret'.t = t
            /\ th'[t].pc = "idle"
            /\ registry' = registry
            /\ heap[th[t].o].self.ID \notin DOMAIN processes
            /\ heap'[th[t].o].stage = "failed" /\ ~heap'[th[t].o].started

\* the step before it, which makes the pid and the process object
C14_NewLeavesTables ==
    \A t \in Threads :
        th[t].pc = "idle" /\ th'[t].op = "spawn" => registry' = registry

\* a failed process that is not in the process table never enters it
C14_NeverRegistered ==
    \A o \in Objects :
        heap[o].stage = "failed" /\ heap[o].self.ID \notin DOMAIN processes =>
            heap'[o].stage = "failed" /\ heap[o].self.ID \notin DOMAIN processes'

\* C14: a spawn whose name is in the name table at its name step returns
\* ErrTaken; neither of its two steps changes the process, name or alias
\* table; its process is not in the process table, then or later, and is
\* never initialised or started.
C14_SpawnTaken == [][C14_Taken /\ C14_NewLeavesTables /\ C14_NeverRegistered]_vars

\* spawn has just returned ErrTaken for a name held by a live process
C14_Witness ==
    /\ ret.op = "spawn" /\ ret.err = "ErrTaken"
    /\ ret.a.name \in DOMAIN names
    /\ heap[ret.a.o].self.ID \notin DOMAIN processes
    /\ \E o \in Objects :
          /\ heap[o].started /\ ~Dead(o)
          /\ names[ret.a.name] = heap[o].self

\* ---------------------------------------------------------------- C15
\* in every mailbox the messages of one sender are in the order of their
\* numbers, which is the order in which the sender sent them
C15_InOrder ==
    \A o \in Objects :
        \A i, j \in DOMAIN heap[o].mailBox :
            i < j /\ heap[o].mailBox[i][1] = heap[o].mailBox[j][1] =>
                heap[o].mailBox[i][2] <= heap[o].mailBox[j][2]

\* the receiver takes the messages from the front
C15_HeadFirst ==
    \A o \in Objects :
        Len(heap'[o].mailBox) < Len(heap[o].mailBox) /\ ~heap'[o].mailBoxNil =>
            heap'[o].mailBox = Tail(heap[o].mailBox)

\* C15: when a sender sends m1 and then m2 to the same local receiver and
\* both are accepted, m1 is before m2 in the receiver's mailbox and is
\* received first, whatever another sender sends in between.
C15_SenderOrder == []C15_InOrder /\ [][C15_HeadFirst]_vars

\* a mailbox holds two messages of one sender with a message of the other
\* sender between them
C15_Witness ==
    \E o \in Objects :
        /\ Len(heap[o].mailBox) = 3
        /\ heap[o].mailBox[1][1] = heap[o].mailBox[3][1]
        /\ heap[o].mailBox[1][1] # heap[o].mailBox[2][1]
        /\ heap[o].mailBox[1][2] < heap[o].mailBox[3][2]

\* ---------------------------------------------------------------- C16
\* C16: coreWaitWithTimeout returns ErrTimeout exactly when the node was
\* alive at the moment d elapsed, and nil exactly when the node was stopped
\* before; coreWait returns only on a stopped node; a stopped node stays
\* stopped and coreIsAlive does not report it alive.
C16_WaitWithTimeout ==
    [][/\ ret'.op = "coreWaitWithTimeout" =>
             /\ ret'.err = "ErrTimeout" <=> ret'.a.fired = "alive"
             /\ ret'.err = "nil" <=> ret'.a.fired # "alive" /\ nodeStopped
       /\ ret'.op = "coreWait" => nodeStopped
       /\ nodeStopped => nodeStopped'
       /\ ret'.op = "coreIsAlive" /\ nodeStopped => ret'.err = "false"]_vars

\* ---------------------------------------------------------------- C17
\* C17: once the node is stopped, the context of every process that spawn
\* returned is cancelled, whichever context it was made from.
C17_StopFansOut ==
    nodeStopped => \A o \in Objects : heap[o].started => ContextErr(o)

\* ---------------------------------------------------------------- C18
\* C18: the reference MakeRef has just returned is the reference of no
\* other value of the counter.
C18_RefsUnique ==
    ret.op = "MakeRef" =>
        \A u \in RefStarts : u # uniqID => MakeRef(u) # ret.a.alias

\* ---------------------------------------------------------------- C19
\* the pids made so far, in the order of their newPID calls
C19_Increasing ==
    \A i, j \in Objects : i < j => heap[i].self.ID < heap[j].self.ID

C19_Stamped ==
    \A o \in Objects :
        /\ heap[o].self.ID > startPID
        /\ heap[o].self.ID <= nextPID
        /\ heap[o].self.Creation = Creation
        /\ heap[o].self.Node = NodeName

\* the step that makes a pid makes one greater than every pid made before
C19_Fresh ==
    Len(heap') > Len(heap) =>
        /\ nextPID' > nextPID
        /\ heap'[Len(heap')].self.ID = nextPID'
        /\ \A o \in Objects : heap'[o].self = heap[o].self

\* C19: the pids newPID has returned, to the spawns of both callers and to
\* spawns that failed, have ids that are all different, each greater than
\* the ids made before it and than the start value, and carry the creation
\* (and the name) of the node.
C19_PidsIncrease == [](C19_Increasing /\ C19_Stamped) /\ [][C19_Fresh]_vars

\* two pids have been made, the first for a spawn that failed
C19_Witness ==
    /\ Len(heap) = 2
    /\ heap[1].stage = "failed"
    /\ heap[2].started
    /\ heap[1].self.ID < heap[2].self.ID

\* ---------------------------------------------------------------- C20
\* (group, name) is registered
C20_Registered(group, name) ==
    group \in DOMAIN behaviors /\ name \in DOMAIN behaviors[group]

C20_Register ==
    ret'.op = "RegisterBehavior" =>
        LET group == ret'.a.group
            name == ret'.a.name
        IN IF C20_Registered(group, name)
           THEN ret'.err = "ErrTaken" /\ behaviors' = behaviors
           ELSE /\ ret'.err = "nil"
                /\ group \in DOMAIN behaviors'
                /\ name \in DOMAIN behaviors'[group]
                /\ behaviors'[group][name] = ret'.a.data
                /\ \A g \in Groups, n \in BehaviorNames :
                      C20_Registered(g, n) =>
                          /\ g \in DOMAIN behaviors' /\ n \in DOMAIN behaviors'[g]
                          /\ behaviors'[g][n] = behaviors[g][n]

C20_NoEmptyGroup ==
    \A group \in DOMAIN behaviors : DOMAIN behaviors[group] # {}

\* C20: RegisterBehavior of a (group, name) that is registered returns
\* ErrTaken and leaves the map as it is; of one that is not, it returns nil,
\* stores the behavior and keeps every other entry; and the map never holds
\* a group without a behavior.
C20_BehaviorsUnique == []C20_NoEmptyGroup /\ [][C20_Register]_vars

\* RegisterBehavior has just returned ErrTaken for a (group, name) that
\* holds other data and is the only entry of the map
C20_Witness ==
    /\ ret.op = "RegisterBehavior" /\ ret.err = "ErrTaken"
    /\ C20_Registered(ret.a.group, ret.a.name)
    /\ behaviors[ret.a.group][ret.a.name] # ret.a.data
    /\ DOMAIN behaviors = {ret.a.group}
    /\ DOMAIN behaviors[ret.a.group] = {ret.a.name}

\* ---------------------------------------------------------------- C21
\* C21: a local RouteSend whose send meets a full mailbox drops the message
\* and returns nil (success) to its caller.
C21_FullReportsOk ==
    [][\A t \in Threads, p \in Objects :
          C4_Sends(t, p) /\ Len(heap[p].mailBox) >= heap[p].cap =>
              heap' = heap /\ ret'.err = "nil"]_vars

\* ---------------------------------------------------------------- C22
\* o is in none of the three tables
C22_Absent(o) ==
    /\ heap[o].self.ID \notin DOMAIN processes
    /\ heap[o].name \notin DOMAIN names
    /\ \A n \in DOMAIN names : names[n] # heap[o].self
    /\ \A a \in DOMAIN aliases : aliases[a] # o

\* the steps of the cleanup of o come in the order of the claim
C22_Ordered(o) ==
    /\ heap'[o].stage = "dp_procs" /\ heap[o].stage # "dp_procs" => heap'[o].gracefulExitNil
    /\ heap'[o].killed /\ ~heap[o].killed =>
          heap[o].gracefulExitNil /\ heap[o].self.ID \notin DOMAIN processes
    /\ heap'[o].notified # heap[o].notified =>
          /\ heap[o].killed /\ heap[o].notified = 0
          /\ C22_Absent(o)
    /\ heap'[o].mailBoxNil /\ ~heap[o].mailBoxNil =>
          /\ heap[o].notified = 1
          /\ heap'[o].self = heap[o].self /\ heap'[o].name = heap[o].name

C22_NotifiedOnce ==
    \A o \in Objects :
        /\ heap[o].notified <= 1
        /\ heap[o].stage = "done" => heap[o].notified = 1

\* C22: the cleanup of a process whose loop has returned sets gracefulExit
\* to nil, then unregisters the process, then cancels its context, then
\* calls the notifier, then blanks the fields but self and name; when the
\* notifier is called the process is in none of the three tables; and the
\* notifier is called once for every terminated process.
C22_CleanupOrder ==
    []C22_NotifiedOnce /\ [][\A o \in Objects : C22_Ordered(o)]_vars

\* ---------------------------------------------------------------- C23
\* thread t calls exit in this step
C23_Calls(t) ==
    /\ th[t].pc = "idle"
    /\ \/ th'[t].op = "exit"
       \/ ret'.op = "exit" /\ ret'.t = t

C23_Args(t) == IF th'[t].pc = "idle" THEN ret'.a ELSE th'[t]

C23_Call ==
    \A t \in Threads :
        C23_Calls(t) =>
            /\ heap' = heap
            /\ IF ContextErr(C23_Args(t).o)
               THEN ret'.err = "ErrProcessUnknown" /\ th'[t].pc = "idle"
               ELSE th'[t].pc = "ex_send"

C23_Send ==
    \A t \in Threads :
        th[t].pc = "ex_send" /\ th'[t] # th[t] =>
            LET o == th[t].o IN
            IF heap[o].gracefulExitNil \/ Len(heap[o].gracefulExit) >= heap[o].cap
            THEN ret'.err = "ErrProcessBusy" /\ th'[t].pc = "idle" /\ heap' = heap
            ELSE /\ heap' = [heap EXCEPT ![o].gracefulExit =
                                Append(heap[o].gracefulExit, <<th[t].from, th[t].reason>>)]
                 /\ th'[t].pc = "ex_kill"

C23_Kill ==
    \A t \in Threads :
        th[t].pc = "ex_kill" /\ th'[t] # th[t] =>
            LET o == th[t].o IN
            /\ ret'.err = "nil" /\ th'[t].pc = "idle"
            /\ heap' = [heap EXCEPT ![o].killed = heap[o].killed \/ ~heap[o].trapExit]

C23_NeverBlocks ==
    \A t \in Threads :
        /\ th[t].pc = "ex_send" => ENABLED (\E stale \in BOOLEAN : exitSend(t, stale))
        /\ th[t].pc = "ex_kill" => ENABLED (\E stale \in BOOLEAN : exitKill(t, stale))

\* C23: exit never waits; called on a process whose context is cancelled it
\* returns ErrProcessUnknown and changes nothing; with the gracefulExit queue
\* full, or set to nil by the cleanup, it returns ErrProcessBusy, enqueues
\* nothing and does not kill; otherwise it appends the one record (from,
\* reason), returns nil, and cancels the process exactly when trapExit is
\* false.
C23_Exit == []C23_NeverBlocks /\ [][C23_Call /\ C23_Send /\ C23_Kill]_vars

\* ---------------------------------------------------------------- C24
\* the place of each mutex in the order: the four registry mutexes, then
\* the mutex of a process
C24_Rank(m) ==
    CASE m = "names" -> 1
      [] m = "processes" -> 2
      [] m = "aliases" -> 3
      [] m = "behaviors" -> 4
      [] m = "process" -> 5

\* C24: whenever an operation takes a mutex, every mutex it already holds
\* comes earlier in the order names, processes, aliases, behaviors, process
\* mutex: no registry mutex is taken out of this order, and none is taken
\* while a process mutex is held.
C24_LockOrder ==
    [][\A t \in Threads :
          Len(th'[t].held) > Len(th[t].held) =>
              \A m \in Held(t) :
                  C24_Rank(m) < C24_Rank(th'[t].held[Len(th'[t].held)])]_vars

\* ---------------------------------------------------------------- C25
\* n = u + 1 in 64 bits, for counters held as hi * 2^46 + mid * 2^18 + lo
C25_Successor(u, n) ==
    \/ u.lo < TwoPow18 - 1 /\ n = [hi |-> u.hi, mid |-> u.mid, lo |-> u.lo + 1]
    \/ /\ u.lo = TwoPow18 - 1 /\ u.mid < TwoPow28 - 1
       /\ n = [hi |-> u.hi, mid |-> u.mid + 1, lo |-> 0]
    \/ /\ u.lo = TwoPow18 - 1 /\ u.mid = TwoPow28 - 1 /\ u.hi < TwoPow18 - 1
       /\ n = [hi |-> u.hi + 1, mid |-> 0, lo |-> 0]
    \/ /\ u.lo = TwoPow18 - 1 /\ u.mid = TwoPow28 - 1 /\ u.hi = TwoPow18 - 1
       /\ n = [hi |-> 0, mid |-> 0, lo |-> 0]

\* C25: MakeRef adds one to the 64-bit counter and returns, for the new
\* value n, the reference of this node and creation whose words are
\* n mod 2^18, n div 2^46 and 0.
C25_MakeRefWords ==
    [][ret'.op = "MakeRef" =>
          /\ C25_Successor(uniqID, uniqID')
          /\ ret'.a.alias.Node = NodeName
          /\ ret'.a.alias.Creation = Creation
          /\ ret'.a.alias.ID = <<uniqID'.lo, uniqID'.hi, 0>>]_vars

\* MakeRef has just carried out of the low 46 bits: the first word is 0
\* and the second is one more than it was
C25_Witness ==
    /\ ret.op = "MakeRef"
    /\ uniqID = [hi |-> 24001, mid |-> 0, lo |-> 0]
    /\ ret.a.alias.ID = <<0, 24001, 0>>

\* ---------------------------------------------------------------- C26
\* a RouteSend from a sender of this node takes the local route exactly
\* when to.Node is the name of the node; on the other route it touches no
\* mailbox and looks the sender up in the process table
C26_Decision ==
    \A t \in Threads :
        C5_Runs(t) /\ ~alienSender(C5_Args(t).from) =>
            IF C5_Args(t).to.Node = NodeName
            THEN \/ /\ th'[t].pc = "idle" /\ ret'.sent = 0
                    /\ ret'.err \in {"ErrProcessIncarnation", "ErrProcessUnknown"}
                 \/ th'[t].pc = "rs_enq" /\ heap[th'[t].o].self.ID = C5_Args(t).to.ID
            ELSE /\ heap' = heap
                 /\ IF C5_Args(t).from.ID \notin DOMAIN processes
                    THEN /\ ret'.err = "ErrSenderUnknown" /\ ret'.sent = 0
                         /\ th'[t].pc = "idle"
                    ELSE /\ th'[t].pc = "conn"
                         /\ th'[t].o = processes[C5_Args(t).from.ID]

\* the call of the connection: its error of GetConnection is returned with
\* nothing sent, otherwise Send is called once and its result returned; no
\* mailbox of this node changes
C26_Remote ==
    \A t \in Threads :
        th[t].pc = "conn" /\ th'[t] # th[t] =>
            /\ heap' = heap
            /\ th'[t].pc = "idle" /\ ret'.t = t
            /\ ret'.sent = IF ret'.err = "ErrNoRoute" THEN 0 ELSE 1

\* a mailbox is filled only for a receiver of this node
C26_LocalOnly ==
    \A t \in Threads :
        /\ th[t].pc = "rs_enq" => th[t].to.Node = NodeName
        /\ th[t].pc = "conn" /\ th[t].to # NoPid => th[t].to.Node # NodeName

\* C26: RouteSend, from a sender of this node, takes the local route (the
\* lookup of the receiver and the send to its mailbox) if and only if
\* to.Node is the name of this node; otherwise it changes no mailbox,
\* returns ErrSenderUnknown unless the sender's id is in the process table,
\* returns the error of GetConnection with nothing sent, and else calls
\* Send of the connection once and returns its result.
C26_Routing == []C26_LocalOnly /\ [][C26_Decision /\ C26_Remote]_vars

\* RouteSend to a pid of another node has just returned the error of the
\* one Send it made, while a message sent before sits in a mailbox of this
\* node
C26_Witness ==
    /\ ret.op = "RouteSend" /\ ret.sent = 1 /\ ret.err = "ErrConn"
    /\ ret.a.to.Node = OtherNode
    /\ \E o \in Objects : ~heap[o].mailBoxNil /\ heap[o].mailBox # <<>>

\* ---------------------------------------------------------------- C27
\* spawn returns the process only once its loop has signalled started
C27_AfterStarted ==
    ret'.op = "spawn" /\ ret'.err = "nil" => heap'[ret'.a.o].started

\* C27: every spawn whose init has succeeded returns, whatever its loop
\* does (it may return or panic before it signals started), and it returns
\* the process only after the loop has signalled started.
C27_SpawnReturns ==
    /\ \A t \in Threads : (th[t].pc = "sp_wait") ~> (th[t].pc = "idle")
    /\ [][C27_AfterStarted]_vars

\* ---------------------------------------------------------------- C28
\* C28: when spawn returns an error (the name is taken, init panics, or
\* init returns an error) the process it made is not in the process table,
\* and the name it was to have is not in the name table unless the error
\* is that the name was taken.
C28_NoTrace ==
    [][ret'.op = "spawn" /\ ret'.err # "nil" =>
          /\ heap[ret'.a.o].self.ID \notin DOMAIN processes'
          /\ ret'.a.name # "" /\ ret'.err # "ErrTaken" =>
                ret'.a.name \notin DOMAIN names']_vars

\* ---------------------------------------------------------------- C29
\* the step is the names section of the deleteProcess of o
C29_DeletesNames(o) ==
    \/ heap[o].stage = "dp_names" /\ heap'[o].stage = "dp_aliases"
    \/ \E t \in Threads :
          th[t].pc = "sp_dp_names" /\ th'[t].pc = "sp_dp_aliases" /\ th[t].o = o

\* C29: the termination of a process P takes out of the name table only
\* names that map to P.self: a name that maps to another, live process Q
\* (also the name P was spawned with, once it was unregistered and
\* registered for Q) still maps to Q.self afterwards.
C29_OnlyOwnNames ==
    [][\A o \in Objects, q \in Objects, n \in DOMAIN names :
          /\ C29_DeletesNames(o)
          /\ q # o /\ heap[q].started /\ ~Dead(q) /\ names[n] = heap[q].self
          => n \in DOMAIN names' /\ names'[n] = heap[q].self]_vars

\* ---------------------------------------------------------------- C30
\* C30: the process ProcessByPid returns for a pid is the process of that
\* pid: for a pid of another node or of another creation it returns nil,
\* also when the numeric id is the id of a live process of this node.
C30_DenotedProcess ==
    \A pid \in Selfs \cup {StalePid, AlienPid} :
        ProcessByPid(pid) # 0 => heap[ProcessByPid(pid)].self = pid

\* ---------------------------------------------------------------- C31
\* C31: once the kill of a process has been invoked (by exit on a process
\* that does not trap exits, or by its termination cleanup) the context of
\* the process is cancelled and the process is not alive, whether it was
\* spawned with opts.Context or without.
C31_KillCancels ==
    \A o \in Objects : heap[o].killed => ContextErr(o) /\ ~IsAlive(o)
====
